---- MODULE Spec2Model ----
(***************************************************************************)
(* Model of the client-side logic of the catalog front-end:                *)
(*   - AuthProvider (src/src/context/AuthContext.tsx): getSession, the     *)
(*     auth state-change handler, the initial session retrieval and the    *)
(*     redirect policy;                                                    *)
(*   - ProtectedRoute (two revisions) and the route table of App.tsx;      *)
(*   - Categories.buildCategoryTree (src/src/pages/Categories.tsx).        *)
(* Strings the code inspects with startsWith / includes are sequences of   *)
(* one-character strings, so that prefix and substring tests are computed. *)
(***************************************************************************)
EXTENDS Integers, Sequences, FiniteSets, TLC

VARIABLES
    \* ---- AuthProvider (AuthContext.tsx) ----
    user,               \* useState<User | null>
    loading,            \* useState(true)
    mounted,            \* `mounted` flag of the effect / live subscription
    initPc,             \* position of initializeAuth: "pending" | "done"
    requireAuth,        \* prop
    routeRev,           \* which revision of ProtectedRoute the build bundles
    pathname,           \* window.location.pathname
    search,             \* window.location.search
    last,               \* what the last provider/router step was and what it did
    \* ---- one call of getSession ----
    call,               \* inputs, backend responses and outcome of the call
    \* ---- Categories page ----
    rows,               \* list handed to buildCategoryTree
    categories,         \* useState<Category[]>: the tree that is displayed
    \* ---- edit pages, data hook, product form ----
    page,               \* state of EditCategory / EditProduct and its last exchange
    hook,               \* one operation of useTable
    form                \* one submission of ProductForm

vars == <<user, loading, mounted, initPc, requireAuth, routeRev, pathname, search,
          last, call, rows, categories, page, hook, form>>

authVars == <<user, loading, mounted, initPc, requireAuth, routeRev, pathname,
              search, last>>
treeVars == <<rows, categories>>
pageVars == <<page, hook, form>>

(***************************************************************************)
(* Bounds and program constants                                            *)
(***************************************************************************)
\* clock values are taken within MaxSkew ms / s of the reference instant
MaxSkew == 1
\* longest category list handed to buildCategoryTree
MaxCats == 3
\* default of the refreshTokenThreshold prop, in seconds
DefaultRefreshTokenThreshold == 300
\* `* 1000` : seconds to milliseconds
MsPerSec == 1000
\* reference instant of the modelled clock, in seconds
BaseSec == 1000

(***************************************************************************)
(* Values                                                                  *)
(***************************************************************************)
NullUser == "null"
Users == {"u1", "u2"}
\* a Session whose optional expires_at is undefined carries Undefined
Undefined == -1
NullSession == [null |-> TRUE]
NoNav == [none |-> TRUE]

Session(u, e) == [user |-> u, expires_at |-> e]

\* session?.user ?? null
UserOf(session) == IF session = NullSession THEN NullUser ELSE session.user

\* JavaScript truthiness of an optional number
Truthy(n) == n # Undefined /\ n # 0

(***************************************************************************)
(* String helpers: String.prototype.startsWith / includes                  *)
(***************************************************************************)
StartsWith(s, p) == Len(s) >= Len(p) /\ SubSeq(s, 1, Len(p)) = p

Includes(s, p) ==
    \E i \in 1..(Len(s) + 1) :
        i + Len(p) - 1 <= Len(s) /\ SubSeq(s, i, i + Len(p) - 1) = p

P_login    == <<"/","l","o","g","i","n">>
P_signup   == <<"/","s","i","g","n","u","p">>
P_signupX  == <<"/","s","i","g","n","u","p","/","x">>
P_root     == <<"/">>
P_dash     == <<"/","d","a","s","h","b","o","a","r","d">>
P_products == <<"/","p","r","o","d","u","c","t","s">>
P_cats     == <<"/","c","a","t","e","g","o","r","i","e","s">>
P_forgot   == <<"/","f","o","r","g","o","t","-","p","a","s","s","w","o","r","d">>
P_update   == <<"/","u","p","d","a","t","e","-","p","a","s","s","w","o","r","d">>
P_other    == <<"/","x">>

Paths == {P_login, P_signup, P_signupX, P_root, P_dash, P_products, P_cats,
          P_forgot, P_update, P_other}

S_none       == <<>>
S_midSignup  == <<"?","a","&","f","r","o","m","=","s","i","g","n","u","p">>
S_other      == <<"?","a">>
Searches == {S_none, S_midSignup, S_other}

FromSignupToken == <<"f","r","o","m","=","s","i","g","n","u","p">>

\* defaults of the props, which App.tsx leaves untouched
loginPath == P_login
homePath  == P_root

(***************************************************************************)
(* getSession (AuthContext.tsx 43-70)                                      *)
(* A backend call answers {data, error} ("ok" / "error") or rejects        *)
(* ("throw").                                                              *)
(***************************************************************************)
Ok(s)    == [kind |-> "ok", session |-> s]
ErrResp  == [kind |-> "error", session |-> NullSession]
ThrowResp == [kind |-> "throw", session |-> NullSession]

\* lines 57-58: session?.expires_at &&
\*              session.expires_at * 1000 < Date.now() + refreshTokenThreshold * 1000
needsRefreshLe(session, nowMs, threshold) ==
    /\ session # NullSession
    /\ Truthy(session.expires_at)
    /\ session.expires_at * MsPerSec <= nowMs + threshold * MsPerSec

needsRefresh(session, nowMs, threshold) ==
    /\ session # NullSession
    /\ Truthy(session.expires_at)
    /\ session.expires_at * MsPerSec < nowMs + threshold * MsPerSec

\* the body of the try block: what it returns or that it throws, and how many
\* times each backend call was issued
Returned(s, g, r) == [outcome |-> "return", result |-> s, getCalls |-> g, refreshCalls |-> r]
Thrown(g, r)      == [outcome |-> "throw", result |-> NullSession, getCalls |-> g, refreshCalls |-> r]

getSessionTry(forceRefresh, getResp, refreshResp, nowMs, threshold) ==
    IF forceRefresh
    THEN IF refreshResp.kind = "ok"
         THEN Returned(refreshResp.session, 0, 1)
         ELSE Thrown(0, 1)
    ELSE IF getResp.kind # "ok"
         THEN Thrown(1, 0)
         ELSE IF needsRefresh(getResp.session, nowMs, threshold)
              THEN IF refreshResp.kind = "ok"
                   THEN Returned(refreshResp.session, 1, 1)
                   ELSE Thrown(1, 1)
              ELSE Returned(getResp.session, 1, 0)

\* the function without its catch clause
getSessionNoCatch(forceRefresh, getResp, refreshResp, nowMs, threshold) ==
    getSessionTry(forceRefresh, getResp, refreshResp, nowMs, threshold)

\* lines 44-69: try { ... } catch (error) { return null }
getSession(forceRefresh, getResp, refreshResp, nowMs, threshold) ==
    LET t == getSessionTry(forceRefresh, getResp, refreshResp, nowMs, threshold)
    IN  IF t.outcome = "throw"
        THEN Returned(NullSession, t.getCalls, t.refreshCalls)
        ELSE t

\* ---- inputs of a call ----
NowMsSet   == (BaseSec * MsPerSec - MaxSkew) .. (BaseSec * MsPerSec + MaxSkew)
Thresholds == {0, DefaultRefreshTokenThreshold}
ExpiresSet ==
    {Undefined}
    \cup ((BaseSec - MaxSkew) .. (BaseSec + MaxSkew))
    \cup ((BaseSec + DefaultRefreshTokenThreshold - MaxSkew)
            .. (BaseSec + DefaultRefreshTokenThreshold + MaxSkew))
    \cup {BaseSec + 2 * DefaultRefreshTokenThreshold}

StoredSessions    == {Session(u, e) : u \in Users, e \in ExpiresSet}
\* a refreshed session is fresh: it expires well after the threshold
RefreshedSessions == {Session(u, BaseSec + 2 * DefaultRefreshTokenThreshold) : u \in Users}

GetResponses     == {Ok(s) : s \in StoredSessions \cup {NullSession}} \cup {ErrResp, ThrowResp}
RefreshResponses == {Ok(s) : s \in RefreshedSessions \cup {NullSession}} \cup {ErrResp, ThrowResp}

\* what the backend may answer to the initial retrieval: no session, a session
\* about to expire, a fresh session, an error, a rejection
InitGetResponses ==
    {Ok(s) : s \in {NullSession}
                   \cup {Session(u, e) : u \in Users,
                          e \in {BaseSec, BaseSec + 2 * DefaultRefreshTokenThreshold}}}
    \cup {ErrResp, ThrowResp}

NoCall == [pc |-> "none"]

Requested(f, a, t) ==
    [pc |-> "called", forceRefresh |-> f, autoRefreshSession |-> a, threshold |-> t]

Completed(c, g, r, n) ==
    [pc |-> "done", forceRefresh |-> c.forceRefresh,
     autoRefreshSession |-> c.autoRefreshSession, threshold |-> c.threshold,
     getResp |-> g, refreshResp |-> r, nowMs |-> n,
     out |-> getSession(c.forceRefresh, g, r, n, c.threshold)]

\* a consumer of the context calls getSession(forceRefresh) (line 407)
CallGetSession ==
    /\ call.pc = "idle"
    /\ \E f \in BOOLEAN : call' = Requested(f, call.autoRefreshSession, call.threshold)
    /\ UNCHANGED <<authVars, treeVars, pageVars>>

\* refreshSession (347-367) calls getSessionRef.current(true)
CallRefreshSession ==
    /\ call.pc = "idle"
    /\ call' = Requested(TRUE, call.autoRefreshSession, call.threshold)
    /\ UNCHANGED <<authVars, treeVars, pageVars>>

\* isSessionValid / checkEmailConfirmed (370-381) call getSessionRef.current()
CallIsSessionValid ==
    /\ call.pc = "idle"
    /\ call' = Requested(FALSE, call.autoRefreshSession, call.threshold)
    /\ UNCHANGED <<authVars, treeVars, pageVars>>

\* the backend answers and the call completes
CompleteGetSession ==
    /\ call.pc = "called"
    /\ \E g \in GetResponses, r \in RefreshResponses, n \in NowMsSet :
           call' = Completed(call, g, r, n)
    /\ UNCHANGED <<authVars, treeVars, pageVars>>

IdleAuth ==
    /\ user = NullUser /\ loading = TRUE /\ mounted = FALSE /\ initPc = "off"
    /\ requireAuth = TRUE /\ routeRev = "components"
    /\ pathname = P_root /\ search = S_none
    /\ last = [op |-> "none"]

IdleTree == rows = <<>> /\ categories = [built |-> FALSE]

IdlePage == page = [kind |-> "none"]
IdleHook == hook = [pc |-> "none"]
IdleForm == form = [pc |-> "none"]
IdlePages == IdlePage /\ IdleHook /\ IdleForm

InitSession ==
    /\ IdleAuth
    /\ IdleTree
    /\ IdlePages
    /\ \E a \in BOOLEAN, t \in Thresholds :
           call = [pc |-> "idle", autoRefreshSession |-> a, threshold |-> t]

NextSession ==
    \/ CallGetSession
    \/ CallRefreshSession
    \/ CallIsSessionValid
    \/ CompleteGetSession

SpecSession == InitSession /\ [][NextSession]_vars

(***************************************************************************)
(* AuthProvider: state-change handler, initial retrieval, redirect policy  *)
(***************************************************************************)
Events == {"SIGNED_IN", "TOKEN_REFRESHED", "USER_UPDATED", "SIGNED_OUT",
           "INITIAL_SESSION", "PASSWORD_RECOVERY"}

EventSessions == RefreshedSessions \cup {NullSession}

Nav(to, replace, by) == [to |-> to, replace |-> replace, by |-> by]

Step(op, event, session, applied, nav) ==
    [op |-> op, event |-> event, session |-> session, applied |-> applied,
     path |-> pathname, search |-> search, userBefore |-> user, nav |-> nav]

\* navigate(to, opts) of react-router: the location becomes `to`
Location(nav) ==
    IF nav = NoNav
    THEN UNCHANGED <<pathname, search>>
    ELSE pathname' = nav.to /\ search' = S_none

\* line 86
isSessionEvent(event) == event \in {"SIGNED_IN", "TOKEN_REFRESHED", "USER_UPDATED"}

\* lines 90-92
redirectHomeNoSearchCheck(path, srch) ==
    path = loginPath /\ ~StartsWith(path, P_signup)

redirectHome(path, srch) ==
    /\ path = loginPath
    /\ ~StartsWith(path, P_signup)
    /\ ~Includes(srch, FromSignupToken)

\* lines 99-101
redirectLoginOnSignOutAlways(req, path) ==
    path # loginPath /\ ~StartsWith(path, P_signup)

redirectLoginOnSignOut(req, path) ==
    req /\ path # loginPath /\ ~StartsWith(path, P_signup)

\* lines 122-124
redirectLoginOnInit(session, req, path) ==
    /\ session = NullSession
    /\ req
    /\ path # loginPath
    /\ ~StartsWith(path, P_signup)

\* lines 86-104: the user the handler leaves in state
userAfterEventKeep(event, session, before) ==
    IF event = "SIGNED_OUT" THEN NullUser ELSE before

userAfterEvent(event, session, before) ==
    IF isSessionEvent(event) THEN UserOf(session)
    ELSE IF event = "SIGNED_OUT" THEN NullUser
    ELSE before

\* lines 86-104: the navigation the handler performs
navOfEvent(event, req, path, srch) ==
    IF isSessionEvent(event)
    THEN IF redirectHome(path, srch) THEN Nav(homePath, FALSE, "provider") ELSE NoNav
    ELSE IF event = "SIGNED_OUT"
         THEN IF redirectLoginOnSignOut(req, path)
              THEN Nav(loginPath, TRUE, "provider") ELSE NoNav
         ELSE NoNav

\* lines 83-107, delivered through the subscription of line 133
handleAuthStateChange(event, session) ==
    /\ mounted
    /\ LET nav == navOfEvent(event, requireAuth, pathname, search)
       IN  /\ user' = userAfterEvent(event, session, user)
           /\ loading' = FALSE      \* setLoading(true) ... setLoading(false)
           /\ Location(nav)
           /\ last' = Step("event", event, session, TRUE, nav)
    /\ UNCHANGED <<mounted, initPc, requireAuth, routeRev, call, treeVars, pageVars>>

\* lines 113-128: `await getSession()` has answered
initializeAuth ==
    /\ initPc = "pending"
    /\ initPc' = "done"
    /\ \E g \in InitGetResponses, r \in RefreshResponses :
         LET session == getSession(FALSE, g, r, BaseSec * MsPerSec,
                                   DefaultRefreshTokenThreshold).result
             nav == IF redirectLoginOnInit(session, requireAuth, pathname)
                    THEN Nav(loginPath, TRUE, "provider") ELSE NoNav
         IN  IF mounted
             THEN /\ user' = UserOf(session)
                  /\ loading' = FALSE
                  /\ Location(nav)
                  /\ last' = Step("init", "", session, TRUE, nav)
             ELSE /\ UNCHANGED <<user, loading, pathname, search>>
                  /\ last' = Step("init", "", session, FALSE, NoNav)
    /\ UNCHANGED <<mounted, requireAuth, routeRev, call, treeVars, pageVars>>

\* lines 135-138: cleanup of the effect
Unmount ==
    /\ mounted
    /\ mounted' = FALSE
    /\ last' = [op |-> "unmount"]
    /\ UNCHANGED <<user, loading, initPc, requireAuth, routeRev, pathname, search,
                   call, treeVars, pageVars>>

\* lines 263-290: updateUser, called by a rendered child
updateUser ==
    /\ ~loading
    /\ \E u \in Users \cup {NullUser} :
         /\ user' = IF u # NullUser THEN u ELSE user
         /\ last' = [op |-> "updateUser"]
    /\ UNCHANGED <<loading, mounted, initPc, requireAuth, routeRev, pathname, search,
                   call, treeVars, pageVars>>

\* the visitor follows a link or edits the address
LocationChange ==
    /\ \E p \in Paths, s \in Searches :
         /\ <<p, s>> # <<pathname, search>>
         /\ pathname' = p
         /\ search' = s
    /\ last' = [op |-> "location"]
    /\ UNCHANGED <<user, loading, mounted, initPc, requireAuth, routeRev, call, treeVars, pageVars>>

(***************************************************************************)
(* What is on screen: AuthProvider's gate, the route table, ProtectedRoute *)
(***************************************************************************)
\* src/src/components/ProtectedRoute.tsx 8-25
ProtectedRoute(u, l, path) ==
    IF l THEN "spinner"
    ELSE IF u = NullUser THEN "navigate_login"
    ELSE "children"

\* src/unnamed/part_002 8-28
publicPaths == {P_forgot, P_update}

ProtectedRoutePublicPaths(u, l, path) ==
    IF l THEN "spinner"
    ELSE IF u = NullUser /\ ~(\E p \in publicPaths : StartsWith(path, p))
         THEN "navigate_login"
    ELSE "children"

ProtectedRouteOf(rev, u, l, path) ==
    IF rev = "components" THEN ProtectedRoute(u, l, path)
    ELSE ProtectedRoutePublicPaths(u, l, path)

\* App.tsx 35-36: the two routes outside the protected layout
isPublicRoute(path) == path \in {P_login, P_signup}

\* App.tsx 39-59: the element of a route under the protected layout
protectedChild(path) ==
    IF path = P_dash THEN "Dashboard"
    ELSE IF path = P_products THEN "Products"
    ELSE IF path = P_cats THEN "Categories"
    ELSE "navigate_dashboard"       \* index route and catch-all

\* App.tsx 31-62 under AuthContext.tsx 427-431 ({!loading && children})
renderApp(rev, u, l, path) ==
    IF l THEN "nothing"
    ELSE IF path = P_login THEN "Login"
    ELSE IF path = P_signup THEN "Signup"
    ELSE LET guard == ProtectedRouteOf(rev, u, l, path)
         IN  IF guard = "children" THEN protectedChild(path) ELSE guard

Rendered == renderApp(routeRev, user, loading, pathname)

\* a rendered <Navigate to=... replace /> takes effect
RouteNavigate ==
    /\ Rendered \in {"navigate_login", "navigate_dashboard"}
    /\ LET nav == IF Rendered = "navigate_login"
                  THEN Nav(P_login, TRUE, "route")
                  ELSE Nav(P_dash, TRUE, "route")
       IN  /\ Location(nav)
           /\ last' = Step("route", "", NullSession, TRUE, nav)
    /\ UNCHANGED <<user, loading, mounted, initPc, requireAuth, routeRev, call, treeVars, pageVars>>

IdleCall == call = NoCall

Init ==
    /\ user = NullUser
    /\ loading = TRUE
    /\ mounted = TRUE
    /\ initPc = "pending"
    /\ requireAuth \in BOOLEAN
    /\ routeRev \in {"components", "part_002"}
    /\ pathname \in Paths
    /\ search \in Searches
    /\ last = [op |-> "none"]
    /\ IdleCall
    /\ IdleTree
    /\ IdlePages

Next ==
    \/ initializeAuth
    \/ \E e \in Events, s \in EventSessions : handleAuthStateChange(e, s)
    \/ Unmount
    \/ updateUser
    \/ LocationChange
    \/ RouteNavigate

Spec == Init /\ [][Next]_vars

(***************************************************************************)
(* Categories.buildCategoryTree (Categories.tsx 61-84)                     *)
(* The returned objects reference each other, so the forest is kept as the *)
(* list of root ids and, per id of the map, the list of its children ids.  *)
(***************************************************************************)
NullId  == "null"
EmptyId == ""
CatIds  == {ToString(i) : i \in 1..MaxCats}
\* an id that no row of the list carries (a parent outside the fetched rows)
ForeignId == "other"
ParentIds == {NullId, EmptyId, ForeignId} \cup CatIds

Category(id, parent) == [id |-> id, parent_id |-> parent]

RECURSIVE idsOf(_)
idsOf(list) ==
    IF list = <<>> THEN <<>> ELSE <<Head(list).id>> \o idsOf(Tail(list))

Range(seq) == {seq[i] : i \in 1..Len(seq)}

\* first pass (66-68): Map keeps a key at the position of its first insertion
RECURSIVE mapKeys(_)
mapKeys(list) ==
    IF list = <<>> THEN <<>>
    ELSE LET front == mapKeys(SubSeq(list, 1, Len(list) - 1))
             id == list[Len(list)].id
         IN  IF id \in Range(front) THEN front ELSE Append(front, id)

\* ... and the value a key holds is the one set last
mapGet(list, id) ==
    LET idx == {i \in 1..Len(list) : list[i].id = id}
    IN  list[CHOOSE i \in idx : \A j \in idx : j <= i]

\* line 72: category.parent_id && map.has(category.parent_id)
hasParentNoMapCheck(category, keys) ==
    category.parent_id # NullId /\ category.parent_id # EmptyId

hasParent(category, keys) ==
    /\ category.parent_id # NullId
    /\ category.parent_id # EmptyId
    /\ category.parent_id \in Range(keys)

EmptyForest(keys) ==
    [built |-> TRUE, roots |-> <<>>, children |-> [k \in Range(keys) |-> <<>>]]

\* lines 72-80, for one entry of the map
place(forest, category, keys) ==
    IF hasParent(category, keys)
    THEN IF category.parent_id \in DOMAIN forest.children      \* if (parent)
         THEN [forest EXCEPT !.children[category.parent_id] = Append(@, category.id)]
         ELSE forest
    ELSE [forest EXCEPT !.roots = Append(@, category.id)]

\* second pass (71-81): map.forEach visits the keys in insertion order
RECURSIVE secondPass(_, _, _)
secondPass(list, keys, n) ==
    IF n = 0 THEN EmptyForest(keys)
    ELSE place(secondPass(list, keys, n - 1), mapGet(list, keys[n]), keys)

buildCategoryTree(list) ==
    LET keys == mapKeys(list) IN secondPass(list, keys, Len(keys))

\* renderCategory (145-185) with every node expanded: the ids shown, in order
RECURSIVE renderCategory(_, _)
RECURSIVE renderAll(_, _)
renderCategory(forest, id) == <<id>> \o renderAll(forest, forest.children[id])
renderAll(forest, ids) ==
    IF ids = <<>> THEN <<>>
    ELSE renderCategory(forest, Head(ids)) \o renderAll(forest, Tail(ids))

displayed(forest) == renderAll(forest, forest.roots)

Count(x, seq) == Cardinality({i \in 1..Len(seq) : seq[i] = x})

\* the rows a fetch can return: pairwise distinct ids (the primary key)
CategoryRows == {Category(id, par) : id \in CatIds, par \in ParentIds}

DistinctIds(list) == \A i, j \in 1..Len(list) : list[i].id = list[j].id => i = j

\* the parent_id chain starting at the row with `id`, followed n times
RECURSIVE ancestor(_, _, _)
ancestor(list, id, n) ==
    IF n = 0 \/ id \notin Range(idsOf(list)) THEN id
    ELSE ancestor(list, mapGet(list, id).parent_id, n - 1)

OnCycle(list, id) == \E n \in 1..Len(list) : ancestor(list, id, n) = id

Acyclic(list) == \A i \in 1..Len(list) : ~OnCycle(list, list[i].id)

\* fetchCategories (28-55): the rows arrive, the tree is built and stored
fetchCategories ==
    /\ ~categories.built
    /\ categories' = buildCategoryTree(rows)
    /\ UNCHANGED <<rows, authVars, call, pageVars>>

\* EditCategory.fetchData (70-87): the options of the parent dropdown
validParentCategories(list, id) ==
    SelectSeq(list, LAMBDA cat : cat.id # id /\ cat.parent_id # id)

\* EditCategory.handleSubmit (109-145): the chosen option ("" is "No parent")
\* is written as parent_id and the list page is opened again
handleSubmit ==
    /\ categories.built
    /\ \E i \in 1..Len(rows) :
         \E choice \in Range(idsOf(validParentCategories(rows, rows[i].id)))
                        \cup {EmptyId} :
             rows' = [rows EXCEPT ![i].parent_id =
                          IF choice = EmptyId THEN NullId ELSE choice]
    /\ categories' = [built |-> FALSE]
    /\ UNCHANGED <<authVars, call, pageVars>>

\* the table before any edit: distinct ids, no cycle
InitTree ==
    /\ IdleAuth
    /\ IdleCall
    /\ IdlePages
    /\ \E n \in 0..MaxCats : rows \in [1..n -> CategoryRows]
    /\ DistinctIds(rows)
    /\ Acyclic(rows)
    /\ categories = [built |-> FALSE]

NextTree == fetchCategories \/ handleSubmit

SpecTree == InitTree /\ [][NextTree]_vars

(***************************************************************************)
(* Edit pages: EditCategory (EditCategory.tsx 19-193) and EditProduct      *)
(* (part_009 7-57).  A backend answer is {data, error} ("ok" / "error") or *)
(* a rejection ("throw"); an error or rejection carries whether it is an   *)
(* instance of Error and its message.                                      *)
(***************************************************************************)
NoRow == [absent |-> TRUE]
Row(id, owner) == [id |-> id, user_id |-> owner]

ErrorObject == [kind |-> "error", instanceofError |-> FALSE, message |-> "backend error"]
Rejection   == [kind |-> "throw", instanceofError |-> TRUE, message |-> "network error"]
Failures    == {ErrorObject, Rejection}

\* supabase.auth.getUser()
UserAnswer(u) == [kind |-> "ok", user |-> u]
UserAnswers == {UserAnswer(u) : u \in Users \cup {NullUser}} \cup Failures

\* .select('*').eq('id', id).single()
RowAnswer(r) == [kind |-> "ok", data |-> r]
RowAnswers == {RowAnswer(Row("1", o)) : o \in Users} \cup {RowAnswer(NoRow)} \cup Failures

\* .select('*').eq('user_id', user.id).neq('id', id)
ListAnswers == {[kind |-> "ok"]} \cup Failures

\* .select('*', { count: 'exact', head: true })
MaxCount == 2
CountAnswer(n) == [kind |-> "ok", count |-> n]
CountAnswers == {CountAnswer(n) : n \in 0..MaxCount} \cup Failures

\* .delete().eq('id', id)
DeleteAnswers == {[kind |-> "ok"]} \cup Failures

\* err instanceof Error ? err.message : fallback
messageOf(err, fallback) == IF err.instanceofError THEN err.message ELSE fallback

PermissionCategory == "You do not have permission to edit this category"
PermissionProduct  == "You do not have permission to edit this product"

\* what a handler leaves behind: the loaded record, the error text, the loading
\* flag, the navigation and the backend requests it issued, in order
Outcome(record, error, busy, nav, requests) ==
    [record |-> record, error |-> error, loading |-> busy, nav |-> nav,
     requests |-> requests]

\* line 60 / part_009 line 43: data.user_id !== user.id
ownsAnything(data, u) == TRUE

owns(data, u) == data.user_id = u

\* EditCategory.fetchData (32-94)
fetchDataOutcome(auth, rec, list) ==
    LET fallback == "Error loading category" IN
    IF auth.kind # "ok"
    THEN Outcome(NoRow, messageOf(auth, fallback), FALSE, NoNav, <<"getUser">>)
    ELSE IF auth.user = NullUser
    THEN Outcome(NoRow, "", FALSE, Nav(P_login, TRUE, "page"), <<"getUser">>)
    ELSE IF rec.kind # "ok"
    THEN Outcome(NoRow, messageOf(rec, fallback), FALSE, NoNav, <<"getUser", "select">>)
    ELSE IF rec.data = NoRow
    THEN Outcome(NoRow, "Category not found", FALSE, NoNav, <<"getUser", "select">>)
    ELSE IF ~owns(rec.data, auth.user)
    THEN Outcome(NoRow, PermissionCategory, FALSE, NoNav, <<"getUser", "select">>)
    ELSE IF list.kind # "ok"
    THEN Outcome(rec.data, messageOf(list, fallback), FALSE, NoNav,
                 <<"getUser", "select", "list">>)
    ELSE Outcome(rec.data, "", FALSE, NoNav, <<"getUser", "select", "list">>)

\* EditProduct.fetchProduct (part_009 15-54)
fetchProductOutcome(auth, rec) ==
    LET fallback == "Error loading product" IN
    IF auth.kind # "ok"
    THEN Outcome(NoRow, messageOf(auth, fallback), FALSE, NoNav, <<"getUser">>)
    ELSE IF auth.user = NullUser
    THEN Outcome(NoRow, "", FALSE, Nav(P_login, TRUE, "page"), <<"getUser">>)
    ELSE IF rec.kind # "ok"
    THEN Outcome(NoRow, messageOf(rec, fallback), FALSE, NoNav, <<"getUser", "select">>)
    ELSE IF rec.data = NoRow
    THEN Outcome(NoRow, "Product not found", FALSE, NoNav, <<"getUser", "select">>)
    ELSE IF ~owns(rec.data, auth.user)
    THEN Outcome(NoRow, PermissionProduct, FALSE, NoNav, <<"getUser", "select">>)
    ELSE Outcome(rec.data, "", FALSE, NoNav, <<"getUser", "select">>)

Page(kind, out, io) ==
    [kind |-> kind, record |-> out.record, error |-> out.error,
     loading |-> out.loading, nav |-> out.nav, requests |-> out.requests, io |-> io]

\* the page as mounted: useState defaults, the effect has not answered yet
Mounted(kind) ==
    Page(kind, Outcome(NoRow, "", TRUE, NoNav, <<>>), [op |-> "mount"])

fetchData ==
    /\ page.kind = "category"
    /\ page.io.op = "mount"
    /\ \E auth \in UserAnswers, rec \in RowAnswers, list \in ListAnswers :
         page' = Page("category", fetchDataOutcome(auth, rec, list),
                      [op |-> "fetch", auth |-> auth, rec |-> rec])
    /\ UNCHANGED <<authVars, call, treeVars, hook, form>>

fetchProduct ==
    /\ page.kind = "product"
    /\ page.io.op = "mount"
    /\ \E auth \in UserAnswers, rec \in RowAnswers :
         page' = Page("product", fetchProductOutcome(auth, rec),
                      [op |-> "fetch", auth |-> auth, rec |-> rec])
    /\ UNCHANGED <<authVars, call, treeVars, hook, form>>

\* lines 163 / 175: count && count > 0
hasRowsAboveOne(count) == count # 0 /\ count > 1

hasRows(count) == count # 0 /\ count > 0

\* EditCategory.handleDelete (147-193), started from the state `before`
handleDeleteOutcome(before, hasId, confirmed, products, subcategories, deletion) ==
    LET fallback == "Error deleting category"
        failed(msg, reqs) == Outcome(before.record, msg, FALSE, before.nav, reqs)
    IN
    IF ~hasId \/ ~confirmed
    THEN Outcome(before.record, before.error, before.loading, before.nav, <<>>)
    ELSE IF products.kind # "ok"
    THEN failed(messageOf(products, fallback), <<"countProducts">>)
    ELSE IF hasRows(products.count)
    THEN failed("Cannot delete category with associated products", <<"countProducts">>)
    ELSE IF subcategories.kind # "ok"
    THEN failed(messageOf(subcategories, fallback),
                <<"countProducts", "countSubcategories">>)
    ELSE IF hasRows(subcategories.count)
    THEN failed("Cannot delete category with subcategories",
                <<"countProducts", "countSubcategories">>)
    ELSE IF deletion.kind # "ok"
    THEN failed(messageOf(deletion, fallback),
                <<"countProducts", "countSubcategories", "delete">>)
    ELSE Outcome(before.record, before.error, TRUE, Nav(P_cats, FALSE, "page"),
                 <<"countProducts", "countSubcategories", "delete">>)

\* the Delete button exists only while the form is shown (195-240)
formShown == page.kind = "category" /\ page.io.op = "fetch"
             /\ page.error = "" /\ page.record # NoRow

handleDelete ==
    /\ formShown
    /\ \E hasId \in BOOLEAN, confirmed \in BOOLEAN, products \in CountAnswers,
          subcategories \in CountAnswers, deletion \in DeleteAnswers :
         page' = Page("category",
                      handleDeleteOutcome(page, hasId, confirmed, products,
                                          subcategories, deletion),
                      [op |-> "delete", hasId |-> hasId, confirmed |-> confirmed,
                       products |-> products, subcategories |-> subcategories,
                       deletion |-> deletion])
    /\ UNCHANGED <<authVars, call, treeVars, hook, form>>

InitEdit ==
    /\ IdleAuth
    /\ IdleCall
    /\ IdleTree
    /\ IdleHook
    /\ IdleForm
    /\ page \in {Mounted("category"), Mounted("product")}

NextEdit == fetchData \/ fetchProduct \/ handleDelete

SpecEdit == InitEdit /\ [][NextEdit]_vars

(***************************************************************************)
(* useTable (src/src/lib/supabase/utils.ts 19-161)                         *)
(* A request is the table, the verb, the .eq filters and the values sent.  *)
(***************************************************************************)
RowIds == {"1", "2"}

NoValues == [none |-> TRUE]
\* the values a caller may hand to insert / update
ValueSets == {[name |-> "a"],
              [name |-> "a", user_id |-> "u1"],
              [name |-> "a", user_id |-> "u2"]}

Request(table, verb, filters, values) ==
    [table |-> table, verb |-> verb, filters |-> filters, values |-> values]

TableAnswers == {[kind |-> "ok", data |-> "data"]} \cup Failures

NullResult  == [value |-> "null"]
BoolResult(b) == [value |-> IF b THEN "true" ELSE "false"]
DataResult(answer) == [value |-> "data", data |-> answer.data]

\* line 85: { ...values, user_id: user.id }
withUserIdFirst(values, u) == values @@ [user_id |-> u]

withUserId(values, u) == [user_id |-> u] @@ values

\* what one operation leaves behind
HookOutcome(requests, result, failed) ==
    [requests |-> requests, result |-> result, loading |-> FALSE, failed |-> failed]

\* the shared shape of the five callbacks: no user, no request; otherwise one
\* request, whose failure is caught
guarded(u, request, answer, onSuccess, onFailure) ==
    IF u = NullUser THEN HookOutcome(<<>>, onFailure, FALSE)
    ELSE IF answer.kind = "ok" THEN HookOutcome(<<request>>, onSuccess, FALSE)
    ELSE HookOutcome(<<request>>, onFailure, TRUE)

\* lines 26-47
fetchAll(table, u, answer) ==
    guarded(u, Request(table, "select", {<<"user_id", u>>}, NoValues), answer,
            DataResult(answer), NullResult)

\* lines 50-73
fetchById(table, u, id, answer) ==
    guarded(u, Request(table, "select", {<<"id", id>>, <<"user_id", u>>}, NoValues),
            answer, DataResult(answer), NullResult)

\* lines 76-98
insert(table, u, values, answer) ==
    guarded(u, Request(table, "insert", {}, withUserId(values, u)), answer,
            DataResult(answer), NullResult)

\* lines 101-125
update(table, u, id, values, answer) ==
    guarded(u, Request(table, "update", {<<"id", id>>, <<"user_id", u>>}, values),
            answer, DataResult(answer), NullResult)

\* lines 128-150
remove(table, u, id, answer) ==
    guarded(u, Request(table, "delete", {<<"id", id>>, <<"user_id", u>>}, NoValues),
            answer, BoolResult(TRUE), BoolResult(FALSE))

Hooked(op, id, values, out) ==
    [pc |-> "done", table |-> hook.table, user |-> hook.user, op |-> op,
     id |-> id, values |-> values, requests |-> out.requests,
     result |-> out.result, loading |-> out.loading, failed |-> out.failed]

hookFetchAll ==
    /\ hook.pc = "ready"
    /\ \E a \in TableAnswers :
         hook' = Hooked("fetchAll", "", NoValues, fetchAll(hook.table, hook.user, a))
    /\ UNCHANGED <<authVars, call, treeVars, page, form>>

hookFetchById ==
    /\ hook.pc = "ready"
    /\ \E a \in TableAnswers, id \in RowIds :
         hook' = Hooked("fetchById", id, NoValues,
                        fetchById(hook.table, hook.user, id, a))
    /\ UNCHANGED <<authVars, call, treeVars, page, form>>

hookInsert ==
    /\ hook.pc = "ready"
    /\ \E a \in TableAnswers, v \in ValueSets :
         hook' = Hooked("insert", "", v, insert(hook.table, hook.user, v, a))
    /\ UNCHANGED <<authVars, call, treeVars, page, form>>

hookUpdate ==
    /\ hook.pc = "ready"
    /\ \E a \in TableAnswers, id \in RowIds, v \in ValueSets :
         hook' = Hooked("update", id, v, update(hook.table, hook.user, id, v, a))
    /\ UNCHANGED <<authVars, call, treeVars, page, form>>

hookRemove ==
    /\ hook.pc = "ready"
    /\ \E a \in TableAnswers, id \in RowIds :
         hook' = Hooked("remove", id, NoValues, remove(hook.table, hook.user, id, a))
    /\ UNCHANGED <<authVars, call, treeVars, page, form>>

InitTable ==
    /\ IdleAuth
    /\ IdleCall
    /\ IdleTree
    /\ IdlePage
    /\ IdleForm
    /\ \E t \in {"categories", "products"}, u \in Users \cup {NullUser} :
         hook = [pc |-> "ready", table |-> t, user |-> u]

NextTable == hookFetchAll \/ hookFetchById \/ hookInsert \/ hookUpdate \/ hookRemove

SpecTable == InitTable /\ [][NextTable]_vars

(***************************************************************************)
(* ProductForm.onSubmit (src/src/components/ProductForm.tsx 493-577)       *)
(* Objects are functions from keys to values; a spread is a merge in which *)
(* the later key wins.  Of productData's keys the model keeps the spread   *)
(* form values, slug, user_id, the three submission keys and one legacy    *)
(* camelCase key with its snake_case copy.                                 *)
(***************************************************************************)
NoObject == [k \in {} |-> ""]

Statuses == {"pending", "approved", "rejected"}
\* new Date().toISOString() at the time of the submission
Clock == {"t1", "t2"}

emailOf(u) == IF u = "u1" THEN "u1@example.com" ELSE "u2@example.com"

\* the product row EditProduct hands over as initialData
LoadedProduct(status) ==
    [id |-> "1", gpsr_moderation_status |-> status,
     gpsr_last_submission_date |-> "t0",
     gpsr_submitted_by_supplier_user |-> "old@example.com"]

\* what the registered inputs hold when the form is submitted
FormInputs ==
    [name : {<<"T", "e", "a">>, <<"A", " ", " ", "-", "b", "!">>},
     gpsrWarningText : {"", "w"}]

\* reset({...initialData}) followed by the user's typing
formDataOf(initialData, inputs) == inputs @@ initialData


RECURSIVE lowered(_)
lowered(str) ==
    IF str = <<>> THEN <<>>
    ELSE <<CASE Head(str) = "T" -> "t" [] Head(str) = "A" -> "a" [] OTHER -> Head(str)>>
         \o lowered(Tail(str))

RECURSIVE keepOnly(_, _)
keepOnly(str, chars) ==
    IF str = <<>> THEN <<>>
    ELSE (IF Head(str) \in chars THEN <<Head(str)>> ELSE <<>>)
         \o keepOnly(Tail(str), chars)

RECURSIVE dropWhile(_, _)
dropWhile(str, chars) ==
    IF str # <<>> /\ Head(str) \in chars THEN dropWhile(Tail(str), chars) ELSE str

\* replace(/\s+/g, '-') and replace(/--+/g, '-'): each run becomes one dash
RECURSIVE dashRuns(_, _)
dashRuns(str, chars) ==
    IF str = <<>> THEN <<>>
    ELSE IF Head(str) \in chars
         THEN <<"-">> \o dashRuns(dropWhile(Tail(str), chars), chars)
         ELSE <<Head(str)>> \o dashRuns(Tail(str), chars)

\* lines 484-491; the final trim() finds no whitespace left
generateSlug(name) ==
    dashRuns(dashRuns(keepOnly(lowered(name), {"a", "b", "e", "t", " ", "-"}),
                      {" "}),
             {"-"})

\* the keys onSubmit sets itself, lines 513-535
overrides(formData, u, now) ==
    [slug |-> generateSlug(formData.name),
     user_id |-> u,
     gpsr_moderation_status |-> "pending",
     gpsr_last_submission_date |-> now,
     gpsr_submitted_by_supplier_user |-> emailOf(u),
     gpsr_warning_text |-> IF formData.gpsrWarningText = "" THEN "null"
                           ELSE formData.gpsrWarningText]

\* lines 538-550: fieldsToRemove
without(object, keys) == [k \in DOMAIN object \ keys |-> object[k]]

productDataSpreadLast(formData, u, now) ==
    without(formData @@ overrides(formData, u, now), {"gpsrWarningText"})

\* lines 511-550: { ...formData, slug, user_id: user.id, ... }
productData(formData, u, now) ==
    without(overrides(formData, u, now) @@ formData, {"gpsrWarningText"})

\* the backend answers, fails, or throws an error that carries no message
WriteAnswers ==
    {[kind |-> "ok"], [kind |-> "throw", instanceofError |-> TRUE, message |-> ""]}
    \cup Failures

\* err.message || 'Error saving product'
messageOr(err, fallback) == IF err.message = "" THEN fallback ELSE err.message

Submitted(writes, error, success, nav) ==
    [writes |-> writes, error |-> error, loading |-> FALSE,
     success |-> success, nav |-> nav]

Caught(writes, err) ==
    Submitted(writes, messageOr(err, "Error saving product"), "", NoNav)

onSubmitOutcome(isEditing, initialData, formData, auth, upload, now, answer) ==
    IF auth.kind = "throw" THEN Caught(<<>>, auth)
    ELSE IF auth.kind = "error" \/ auth.user = NullUser
    THEN Submitted(<<>>, "User not authenticated", "", NoNav)
    ELSE IF upload.kind # "ok" THEN Caught(<<>>, upload)
    ELSE LET data == productData(formData, auth.user, now)
             editing == isEditing /\ "id" \in DOMAIN initialData
             write == IF editing
                      THEN Request("products", "update",
                                   {<<"id", initialData.id>>}, data)
                      ELSE Request("products", "insert", {}, data)
         IN  IF answer.kind # "ok" THEN Caught(<<write>>, answer)
             ELSE IF editing
             THEN Submitted(<<write>>, "", "Product updated successfully", NoNav)
             ELSE Submitted(<<write>>, "", "Product created successfully",
                            Nav(P_products, FALSE, "ProductForm"))

onSubmit ==
    /\ form.pc = "ready"
    /\ \E inputs \in FormInputs, auth \in UserAnswers, upload \in {[kind |-> "ok"], Rejection},
          now \in Clock, answer \in WriteAnswers :
         LET formData == formDataOf(form.initialData, inputs)
         IN  form' = [pc |-> "done", isEditing |-> form.isEditing,
                      initialData |-> form.initialData, formData |-> formData,
                      auth |-> auth, upload |-> upload, now |-> now,
                      out |-> onSubmitOutcome(form.isEditing, form.initialData,
                                              formData, auth, upload, now, answer)]
    /\ UNCHANGED <<authVars, call, treeVars, page, hook>>

InitForm ==
    /\ IdleAuth
    /\ IdleCall
    /\ IdleTree
    /\ IdlePage
    /\ IdleHook
    /\ \E e \in BOOLEAN,
          d \in {NoObject} \cup {LoadedProduct(st) : st \in Statuses} :
         form = [pc |-> "ready", isEditing |-> e, initialData |-> d]

NextForm == onSubmit

SpecForm == InitForm /\ [][NextForm]_vars

(***************************************************************************)
(* Properties of getSession (checked under SpecSession)                    *)
(***************************************************************************)
\* the instant before which an expiry triggers the proactive refresh, in ms
Deadline == call.nowMs + call.threshold * MsPerSec

\* the stored session the backend handed out, when it handed one out
HasStored ==
    /\ ~call.forceRefresh
    /\ call.getResp.kind = "ok"
    /\ call.getResp.session # NullSession
    /\ call.getResp.session.expires_at # Undefined

InsideThreshold ==
    HasStored /\ call.getResp.session.expires_at * MsPerSec < Deadline

\* C1: getSession without forceRefresh returns the stored session unchanged,
\* without refreshing, when expires_at is at least refreshTokenThreshold seconds
\* after now; when expires_at is strictly less than now + refreshTokenThreshold
\* it issues exactly one refresh and returns the refreshed session; with
\* forceRefresh it issues exactly one refresh, never reads the stored session,
\* and returns the refreshed session.
C1_GetSessionRefreshPolicy ==
    call.pc = "done" =>
        /\ (HasStored /\ ~InsideThreshold) =>
               /\ call.out.result = call.getResp.session
               /\ call.out.getCalls = 1
               /\ call.out.refreshCalls = 0
        /\ InsideThreshold =>
               /\ call.out.getCalls = 1
               /\ call.out.refreshCalls = 1
               /\ (call.refreshResp.kind = "ok" =>
                       call.out.result = call.refreshResp.session)
        /\ call.forceRefresh =>
               /\ call.out.getCalls = 0
               /\ call.out.refreshCalls = 1
               /\ (call.refreshResp.kind = "ok" =>
                       call.out.result = call.refreshResp.session)

\* a session one millisecond inside the threshold was replaced by the refreshed one
C1_Witness ==
    /\ call.pc = "done"
    /\ HasStored
    /\ call.getResp.session.expires_at * MsPerSec = Deadline - 1
    /\ call.refreshResp.kind = "ok"
    /\ call.refreshResp.session # NullSession
    /\ call.out.result = call.refreshResp.session
    /\ call.out.result # call.getResp.session
    /\ call.out.refreshCalls = 1

\* some backend call of the completed getSession answered an error or rejected
BackendFailed ==
    \/ call.forceRefresh /\ call.refreshResp.kind # "ok"
    \/ ~call.forceRefresh /\ call.getResp.kind # "ok"
    \/ InsideThreshold /\ call.refreshResp.kind # "ok"

\* C2: getSession never throws; whenever the session retrieval or the refresh
\* answers an error or rejects, it returns null, also when a stored session
\* that has not expired yet exists and its proactive refresh fails.
C2_GetSessionNeverThrows ==
    call.pc = "done" =>
        /\ call.out.outcome = "return"
        /\ BackendFailed => call.out.result = NullSession

\* a stored session still valid, inside the threshold, whose refresh failed
C2_Witness ==
    /\ call.pc = "done"
    /\ InsideThreshold
    /\ call.getResp.session.expires_at * MsPerSec > call.nowMs
    /\ call.refreshResp.kind = "error"
    /\ call.out.outcome = "return"
    /\ call.out.result = NullSession

\* C8: autoRefreshSession decides whether getSession (without forceRefresh)
\* refreshes a session that is inside the refresh threshold: it does when the
\* prop is true and does not when the prop is false.
C8_AutoRefreshSessionControlsRefresh ==
    (call.pc = "done" /\ InsideThreshold) =>
        (call.out.refreshCalls = 1 <=> call.autoRefreshSession)

(***************************************************************************)
(* Properties of the provider and the routes (checked under Spec)          *)
(***************************************************************************)
HandledEvent == last.op = "event"

\* C3: after a SIGNED_IN, TOKEN_REFRESHED or USER_UPDATED event user is the user
\* of the event's session (null without a session); after SIGNED_OUT user is
\* null; any other event leaves user as it was; after every event loading is
\* false.
C3_StateChangePropagation ==
    HandledEvent =>
        /\ loading = FALSE
        /\ last.event \in {"SIGNED_IN", "TOKEN_REFRESHED", "USER_UPDATED"} =>
               user = UserOf(last.session)
        /\ last.event = "SIGNED_OUT" => user = NullUser
        /\ last.event \notin {"SIGNED_IN", "TOKEN_REFRESHED", "USER_UPDATED",
                              "SIGNED_OUT"} => user = last.userBefore

\* a TOKEN_REFRESHED event replaced one user by another
C3_Witness ==
    /\ HandledEvent
    /\ last.event = "TOKEN_REFRESHED"
    /\ last.userBefore \in Users
    /\ user \in Users
    /\ user # last.userBefore

\* the provider has just established that there is no user
EstablishedNoUser ==
    \/ last.op = "init" /\ last.applied /\ last.session = NullSession
    \/ last.op = "event" /\ last.event = "SIGNED_OUT"

ToLogin == Nav(loginPath, TRUE, "provider")

\* C4: with requireAuth, when the provider establishes that there is no user
\* (initial retrieval without session, or SIGNED_OUT) it navigates to loginPath
\* with replace, unless the pathname equals loginPath or starts with /signup;
\* without requireAuth the provider never navigates to loginPath.
C4_RedirectToLogin ==
    /\ (EstablishedNoUser /\ requireAuth) =>
           IF last.path = loginPath \/ StartsWith(last.path, P_signup)
           THEN last.nav = NoNav
           ELSE last.nav = ToLogin /\ pathname = loginPath
    /\ (last.op \in {"init", "event"} /\ ~requireAuth) =>
           (last.nav = NoNav \/ last.nav.to # loginPath)

\* a SIGNED_OUT on the dashboard sent the visitor to the login page
C4_Witness ==
    /\ last.op = "event"
    /\ last.event = "SIGNED_OUT"
    /\ requireAuth
    /\ last.path = P_dash
    /\ last.nav = ToLogin
    /\ pathname = loginPath

ToHome == Nav(homePath, FALSE, "provider")

\* C5: on a SIGNED_IN, TOKEN_REFRESHED or USER_UPDATED event the provider
\* navigates to homePath if and only if the pathname equals loginPath and the
\* query string does not contain 'from=signup'; on any other path (including
\* /signup) such an event causes no navigation.
C5_RedirectToHome ==
    (HandledEvent /\ last.event \in {"SIGNED_IN", "TOKEN_REFRESHED", "USER_UPDATED"}) =>
        IF last.path = loginPath /\ ~Includes(last.search, FromSignupToken)
        THEN last.nav = ToHome /\ pathname = homePath
        ELSE last.nav = NoNav /\ pathname = last.path

\* a SIGNED_IN on the login page led home
C5_Witness ==
    /\ HandledEvent
    /\ last.event = "SIGNED_IN"
    /\ last.path = loginPath
    /\ last.search = S_other
    /\ last.nav = ToHome
    /\ pathname = homePath
    /\ user \in Users

PageContents == {"Dashboard", "Products", "Categories", "navigate_dashboard"}

\* C6: a route under the protected layout renders its page content only if
\* loading is false and user is non-null; while loading is true it renders the
\* spinner; when loading is false and user is null it renders the redirect to
\* /login.
C6_ProtectedRouteRendering ==
    (routeRev = "components" /\ ~isPublicRoute(pathname)) =>
        /\ Rendered \in PageContents => (~loading /\ user # NullUser)
        /\ loading => Rendered = "spinner"
        /\ (~loading /\ user = NullUser) => Rendered = "navigate_login"

\* C7: on a path starting with /forgot-password or /update-password an
\* unauthenticated visitor is not redirected to /login, neither by
\* ProtectedRoute nor by the AuthProvider around it.
C7_PublicPathsNotRedirected ==
    (/\ routeRev = "part_002"
     /\ last.op \in {"init", "event", "route"}
     /\ user = NullUser
     /\ \E p \in publicPaths : StartsWith(last.path, p)) =>
        (last.nav = NoNav \/ last.nav.to # P_login)

(***************************************************************************)
(* Properties of buildCategoryTree (checked under SpecTree)                *)
(***************************************************************************)
\* C9: every input category (pairwise distinct ids) appears exactly once in
\* the forest that is returned and displayed.
C9_EveryCategoryDisplayedOnce ==
    categories.built =>
        \A i \in 1..Len(rows) : Count(rows[i].id, displayed(categories)) = 1

IsRootRow(row) ==
    \/ row.parent_id \in {NullId, EmptyId}
    \/ row.parent_id \notin Range(idsOf(rows))

\* C10: a category is among the roots if and only if its parent_id is
\* null/empty or names no id of the input; otherwise it is in the children of
\* the node with that id and is no root; roots and siblings keep input order.
C10_RootsAndChildren ==
    categories.built =>
        /\ categories.roots = idsOf(SelectSeq(rows, IsRootRow))
        /\ DOMAIN categories.children = Range(idsOf(rows))
        /\ \A p \in Range(idsOf(rows)) :
               categories.children[p] =
                   idsOf(SelectSeq(rows, LAMBDA r : ~IsRootRow(r) /\ r.parent_id = p))

\* a root whose parent is outside the input, with two children kept in order
C10_Witness ==
    /\ categories.built
    /\ \E i, j, k \in 1..Len(rows) :
           /\ j < k
           /\ rows[i].parent_id = ForeignId
           /\ rows[j].parent_id = rows[i].id
           /\ rows[k].parent_id = rows[i].id
           /\ categories.roots = <<rows[i].id>>
           /\ categories.children[rows[i].id] = <<rows[j].id, rows[k].id>>

\* C11: starting from an acyclic hierarchy, parent changes saved through
\* EditCategory.handleSubmit, each choosing among the offered candidates, keep
\* the parent_id relation acyclic.
C11_ParentRelationStaysAcyclic == Acyclic(rows)

(***************************************************************************)
(* Properties of the edit pages (checked under SpecEdit)                   *)
(***************************************************************************)
\* a count check came back without error and with no rows
CheckClear(answer) == answer.kind = "ok" /\ answer.count = 0

DeleteIssued == "delete" \in Range(page.requests)

\* C12: handleDelete issues the delete only after the user confirmed and both
\* checks (products with this category_id, categories with this parent_id)
\* came back without error and with no rows; when there are products or
\* subcategories, or a check fails, no delete is issued, the error message is
\* set and loading is false again.
C12_DeleteOnlyWhenUnused ==
    page.io.op = "delete" =>
        /\ DeleteIssued =>
               /\ page.io.confirmed
               /\ CheckClear(page.io.products)
               /\ CheckClear(page.io.subcategories)
               /\ page.requests = <<"countProducts", "countSubcategories", "delete">>
        /\ (/\ page.io.hasId
            /\ page.io.confirmed
            /\ ~(CheckClear(page.io.products) /\ CheckClear(page.io.subcategories))) =>
               /\ ~DeleteIssued
               /\ page.error # ""
               /\ page.loading = FALSE

\* a confirmed delete of an unused category went through to the backend
C12_Witness ==
    /\ page.io.op = "delete"
    /\ page.io.confirmed
    /\ CheckClear(page.io.products)
    /\ CheckClear(page.io.subcategories)
    /\ page.io.deletion.kind = "ok"
    /\ page.requests = <<"countProducts", "countSubcategories", "delete">>
    /\ page.nav = Nav(P_cats, FALSE, "page")

\* the fetch answered with a record and with an authenticated user
FetchedFor ==
    /\ page.io.op = "fetch"
    /\ page.io.auth.kind = "ok"
    /\ page.io.auth.user # NullUser
    /\ page.io.rec.kind = "ok"
    /\ page.io.rec.data # NoRow

PermissionError ==
    IF page.kind = "category" THEN PermissionCategory ELSE PermissionProduct

\* C13: EditCategory and EditProduct load a record into the form only when its
\* user_id equals the authenticated user's id; for a record of another user
\* they end with the permission error and no record loaded; with no
\* authenticated user they navigate to /login.
C13_EditPagesVerifyOwnership ==
    page.io.op = "fetch" =>
        /\ page.record # NoRow =>
               /\ FetchedFor
               /\ page.record = page.io.rec.data
               /\ page.record.user_id = page.io.auth.user
        /\ (FetchedFor /\ page.io.rec.data.user_id # page.io.auth.user) =>
               /\ page.record = NoRow
               /\ page.error = PermissionError
               /\ page.nav = NoNav
        /\ (page.io.auth.kind = "ok" /\ page.io.auth.user = NullUser) =>
               /\ page.record = NoRow
               /\ page.nav = Nav(P_login, TRUE, "page")

\* EditProduct refused the product of another user
C13_Witness ==
    /\ page.kind = "product"
    /\ FetchedFor
    /\ page.io.auth.user = "u1"
    /\ page.io.rec.data.user_id = "u2"
    /\ page.record = NoRow
    /\ page.error = PermissionProduct
    /\ page.loading = FALSE

(***************************************************************************)
(* Properties of useTable (checked under SpecTable)                        *)
(***************************************************************************)
\* C14: without a current user every useTable operation returns null (false
\* for remove) and issues no backend request; with a user, fetchAll,
\* fetchById, update and remove restrict the request to rows whose user_id is
\* the user's id, and insert writes user_id = the user's id even when the
\* supplied values carry another user_id.
C14_UseTableScopedToUser ==
    hook.pc = "done" =>
        /\ hook.user = NullUser =>
               /\ hook.requests = <<>>
               /\ hook.result = IF hook.op = "remove" THEN BoolResult(FALSE)
                                ELSE NullResult
        /\ hook.user # NullUser =>
               /\ Len(hook.requests) = 1
               /\ hook.op # "insert" =>
                      <<"user_id", hook.user>> \in hook.requests[1].filters
               /\ hook.op = "insert" =>
                      hook.requests[1].values.user_id = hook.user

\* an insert whose values named another user was written for the current user
C14_Witness ==
    /\ hook.pc = "done"
    /\ hook.op = "insert"
    /\ hook.user = "u1"
    /\ hook.values = [name |-> "a", user_id |-> "u2"]
    /\ hook.requests[1].values = [name |-> "a", user_id |-> "u1"]
    /\ hook.result = [value |-> "data", data |-> "data"]

(***************************************************************************)
(* Properties of ProductForm.onSubmit (checked under SpecForm)             *)
(***************************************************************************)
SubmissionReachesBackend ==
    /\ form.pc = "done"
    /\ form.auth.kind = "ok"
    /\ form.auth.user # NullUser
    /\ form.upload.kind = "ok"

\* C15: every create or update that onSubmit sends writes
\* gpsr_moderation_status = 'pending', the submission's own date and the
\* submitting user's email, whatever status, date and submitter the loaded
\* product carried into the form values.
C15_SubmissionResetsModeration ==
    form.pc = "done" =>
        /\ SubmissionReachesBackend <=> Len(form.out.writes) = 1
        /\ \A i \in 1..Len(form.out.writes) :
             LET sent == form.out.writes[i].values
             IN  /\ form.out.writes[i].verb \in {"insert", "update"}
                 /\ sent.gpsr_moderation_status = "pending"
                 /\ sent.gpsr_last_submission_date = form.now
                 /\ sent.gpsr_submitted_by_supplier_user = emailOf(form.auth.user)

\* an approved product was edited and its update was sent as pending
C15_Witness ==
    /\ form.pc = "done"
    /\ form.isEditing
    /\ "gpsr_moderation_status" \in DOMAIN form.formData
    /\ form.formData.gpsr_moderation_status = "approved"
    /\ form.formData.gpsr_submitted_by_supplier_user = "old@example.com"
    /\ Len(form.out.writes) = 1
    /\ form.out.writes[1].verb = "update"
    /\ form.out.writes[1].values.gpsr_moderation_status = "pending"
    /\ form.out.success = "Product updated successfully"

====
